---- MODULE Spec2Model ----
(***************************************************************************)
(* Pedal Pilot: the pedal-input control loop.                              *)
(*                                                                         *)
(*   PedalService.handlePedalData  -> onPedalStateChanged listener         *)
(*   CopilotService.calculateControlState / executeCopilotControl          *)
(*   accept / delete repeat timers (setInterval) and their async ticks     *)
(*                                                                         *)
(* SpecCalc exercises the pure function calculateControlState over every   *)
(* byte-valued pedal position and a range of configurations.               *)
(* Spec is the rate controller driven by pedal samples.                    *)
(* SpecPedal is the axis normalizer and the toggle detector, with the      *)
(* history of the reports received and the samples processed.              *)
(* SpecDelay computes the repeat delay for every intensity 1..100.         *)
(* SpecReady is Spec with an editor open and an accept command available.  *)
(* SpecListener records the calls of each listener run in order.           *)
(* SpecConfig changes the settings, by hand and by the calibrate command,  *)
(* while samples arrive.                                                   *)
(* SpecThreshold moves the toggle threshold between samples.               *)
(* SpecDevice closes and reconnects the HID device and follows the status  *)
(* bar text.                                                               *)
(* SpecDeepgram is DeepgramService.toggle() with its suspended calls.      *)
(***************************************************************************)
EXTENDS Integers, FiniteSets, Sequences, Bags, TLC

\* ------------------------------------------------------------------------
\* Bounds of the model
\* ------------------------------------------------------------------------
MaxCenter == 130      \* configured pedalCenterPosition ranges over 0..MaxCenter
MaxDeadzone == 2      \* configured pedalDeadzone ranges over 0..MaxDeadzone
MaxIntervals == 2     \* live setInterval timers plus deleteSuggestion calls awaiting 'hide'
MaxTicks == 1         \* timer callbacks whose editor command is still in flight
MaxTrace == 5         \* samples the listener processes in one run of SpecPedal
MaxCalibrations == 1  \* calibrate commands whose updateConfig call has not settled
MaxToggles == 2       \* DeepgramService.toggle() calls suspended in initializeAudio

\* ------------------------------------------------------------------------
\* Program constants
\* ------------------------------------------------------------------------
MaxByte == 255        \* a HID report byte: data[2] is in 0..255
MaxAxis == 127        \* the literal 127 in calculateControlState
MaxIntensity == 100   \* the literal 100 in Math.min(100, ...)
DefaultCenter == 63
DefaultDeadzone == 1
PosInfinity == 1000000  \* stands for the IEEE-754 value +Infinity (x / 0, x > 0)
DefaultTtsThreshold == 90
DefaultSttThreshold == 90
MinDelay == 5         \* the floor in Math.max(5, ...)
NumCommands == 4      \* length of the commands array in acceptOneCharacter
NULL == 0             \* the null timer handle

Bytes == 0..MaxByte

VARIABLES
    pedalCenterPosition,   \* configuration value pedalPilot.pedalCenterPosition
    pedalDeadzone,         \* configuration value pedalPilot.pedalDeadzone
    pedalValue,            \* argument of the call to calculateControlState
    calcState,             \* the CopilotControlState it returned
    calcPc,                \* "call" before the function ran, "return" after
    \* PedalService and the listener registered in activate()
    currentState,          \* PedalService.currentState
    previousRudderPosition,\* the closure variable of activate()
    ttsToggleThreshold,    \* configuration value pedalPilot.ttsToggleThreshold
    ttsEnabled,            \* TTSService.enabled
    \* CopilotService
    controlState,          \* CopilotService.controlState
    acceptTimer,           \* CopilotService.acceptTimer: NULL or an interval id
    deleteTimer,           \* CopilotService.deleteTimer: NULL or an interval id
    isCurrentlyAccepting,  \* CopilotService.isCurrentlyAccepting
    fallbackWarningShown,  \* CopilotService.fallbackWarningShown
    disposed,              \* the extension's subscriptions have been disposed
    \* the host: timers, editor, commands in flight
    intervals,             \* the live setInterval timers: [id, kind, delay]
    hidePending,           \* bag of intensities: deleteSuggestion calls awaiting 'hide'
    acceptTicks,           \* bag of acceptOneCharacter calls awaiting a command
    backspacePending,      \* number of sendBackspace calls awaiting 'deleteLeft'
    editorOpen,            \* vscode.window.activeTextEditor is defined
    availableCommands,     \* indices of the accept commands getCommands() lists
    sttEnabled,            \* STTService.enabled
    warningsShown,         \* number of showWarningMessage calls of acceptOneCharacter
    \* history
    scenario,              \* progress of "Accepting 80 directly followed by Deleting 60"
    tickAfterDispose,      \* a timer callback ran after dispose() returned
    lastReport,            \* the report of the latest handlePedalData call
    eventFired,            \* that call fired onPedalStateChanged
    rudderTrace,           \* rudder position of every sample the listener processed
    toggleTrace,           \* for each of them, whether the listener called ttsService.toggle()
    listenerLog,           \* the calls the latest run of the listener made, in order
    \* the command pedalPilot.calibratePedalCenter
    calibrating,           \* bag of [p, value]: updateConfig calls not yet settled
    calibrated,            \* the updateConfig call that settled last: [p, value, ok]
    \* the HID device, the event emitter and the status bar
    device,                \* PedalService.device is not null
    emitterDisposed,       \* PedalService._onPedalStateChanged has been disposed
    deviceErrored,         \* the device was closed by its 'error' handler
    statusBarText,         \* statusBarItem.text: [kind, intensity, state]
    \* DeepgramService
    deepgram,              \* its fields: enabled, apiKey, deepgramClient, ...
    deepgramCalls,         \* bag of toggle() calls suspended in initializeAudio
    deepgramReturned,      \* the toggle() call that returned last
    hasWindow,             \* typeof window !== 'undefined'
    lastRun,               \* the latest listener run: the state before it, the
                           \* threshold it read and the run before it read, toggled
    \* one computation of the repeat delays
    delayCall              \* [intensity, accept, delete, pc]

deepgramVars == <<deepgram, deepgramCalls, deepgramReturned, hasWindow>>

calcVars == <<pedalCenterPosition, pedalDeadzone, pedalValue, calcState, calcPc>>

configVars == <<pedalCenterPosition, pedalDeadzone, ttsToggleThreshold>>

loopVars == <<currentState, previousRudderPosition, ttsEnabled, controlState,
              acceptTimer, deleteTimer, isCurrentlyAccepting, fallbackWarningShown,
              disposed, intervals, hidePending, acceptTicks, backspacePending,
              editorOpen, availableCommands, scenario, tickAfterDispose,
              sttEnabled, warningsShown, lastReport, eventFired, rudderTrace,
              toggleTrace, listenerLog, calibrating, calibrated, device,
              emitterDisposed, deviceErrored, statusBarText,
              deepgram, deepgramCalls, deepgramReturned, hasWindow, lastRun>>

\* What the rate controller never touches: the speech-recognition switch, the
\* log of samples and the delay computation.
sideVars == <<sttEnabled, lastReport, eventFired, rudderTrace, toggleTrace, delayCall,
              listenerLog, calibrating, calibrated, device, emitterDisposed,
              deviceErrored, statusBarText,
              deepgram, deepgramCalls, deepgramReturned, hasWindow, lastRun>>

vars == <<pedalCenterPosition, pedalDeadzone, pedalValue, calcState, calcPc,
          ttsToggleThreshold, currentState, previousRudderPosition, ttsEnabled,
          controlState, acceptTimer, deleteTimer, isCurrentlyAccepting,
          fallbackWarningShown, disposed, intervals, hidePending, acceptTicks,
          backspacePending, editorOpen, availableCommands, scenario, tickAfterDispose,
          sttEnabled, warningsShown, lastReport, eventFired, rudderTrace, toggleTrace,
          delayCall, listenerLog, calibrating, calibrated, device, emitterDisposed,
          deviceErrored, statusBarText,
          deepgram, deepgramCalls, deepgramReturned, hasWindow, lastRun>>

\* ------------------------------------------------------------------------
\* calculateControlState
\* ------------------------------------------------------------------------

\* The default state built at the top of calculateControlState.
DefaultControlState == [isAccepting |-> FALSE, isDeleting |-> FALSE, intensity |-> 0]

\* Pairs <<n, d>> for which the double-precision product (n / d) * 100 falls
\* just short of a value k + 1/2 that the exact quotient 100 * n / d attains,
\* so that Math.round yields one less than rounding the exact quotient
\* (e.g. (23 / 40) * 100 = 57.49999999999999).  All such pairs with
\* 1 <= n <= 300 and 1 <= |d| <= 300.
FloatShortfall ==
    { <<77, -280>>, <<66, -240>>, <<294, -240>>, <<7, -200>>, <<55, -200>>,
      <<109, -200>>, <<111, -200>>, <<243, -200>>, <<245, -200>>, <<247, -200>>,
      <<249, -200>>, <<44, -160>>, <<196, -160>>, <<33, -120>>, <<147, -120>>,
      <<249, -120>>, <<279, -120>>, <<22, -80>>, <<98, -80>>, <<166, -80>>,
      <<186, -80>>, <<11, -40>>, <<49, -40>>, <<83, -40>>, <<93, -40>>,
      <<161, -40>>, <<171, -40>>, <<181, -40>>, <<191, -40>>, <<201, -40>>,
      <<23, 40>>, <<41, 40>>, <<51, 40>>, <<87, 40>>, <<97, 40>>, <<169, 40>>,
      <<179, 40>>, <<189, 40>>, <<199, 40>>, <<46, 80>>, <<82, 80>>, <<102, 80>>,
      <<174, 80>>, <<194, 80>>, <<69, 120>>, <<123, 120>>, <<153, 120>>,
      <<261, 120>>, <<291, 120>>, <<92, 160>>, <<164, 160>>, <<204, 160>>,
      <<29, 200>>, <<57, 200>>, <<113, 200>>, <<115, 200>>, <<201, 200>>,
      <<203, 200>>, <<205, 200>>, <<207, 200>>, <<251, 200>>, <<253, 200>>,
      <<255, 200>>, <<138, 240>>, <<246, 240>>, <<161, 280>>, <<287, 280>> }

\* floor(a / b) for any b # 0.
FloorDiv(a, b) == IF b > 0 THEN a \div b ELSE (0 - a) \div (0 - b)

\* Rounding of the exact quotient 100 * n / d to the nearest integer, a tie
\* going up (Math.round applied to the exact value).
ExactRound100(n, d) == FloorDiv(200 * n + d, 2 * d)

\* Math.round((n / d) * 100) with a zero divisor guarded the wrong way: the
\* guard yields 0 instead of saturating.
MathRoundRatio100_ZeroGuard(n, d) ==
    IF d = 0 THEN 0
    ELSE IF <<n, d>> \in FloatShortfall THEN ExactRound100(n, d) - 1
    ELSE ExactRound100(n, d)

\* Math.round((n / d) * 100) as JavaScript evaluates it, for n > 0:
\* a zero divisor gives +Infinity, and Math.round(Infinity) is Infinity.
MathRoundRatio100(n, d) ==
    IF d = 0 THEN PosInfinity
    ELSE IF <<n, d>> \in FloatShortfall THEN ExactRound100(n, d) - 1
    ELSE ExactRound100(n, d)

\* Math.min
MathMin(a, b) == IF a <= b THEN a ELSE b

\* calculateControlState with the deadzone left out of the band test and of
\* the branch conditions.
calculateControlState_NoDeadzone(v, pedalCenter, deadzone) ==
    IF v = pedalCenter
    THEN DefaultControlState
    ELSE IF v > pedalCenter
    THEN [isAccepting |-> TRUE, isDeleting |-> FALSE,
          intensity |-> MathMin(MaxIntensity,
                           MathRoundRatio100(v - pedalCenter, MaxAxis - pedalCenter))]
    ELSE [isAccepting |-> FALSE, isDeleting |-> TRUE,
          intensity |-> MathMin(MaxIntensity,
                           MathRoundRatio100(pedalCenter - v, pedalCenter))]

\* calculateControlState with the delete-side ratio inverted: the distance is
\* measured from 0 instead of from the edge of the band.
calculateControlState_DeleteFromZero(v, pedalCenter, deadzone) ==
    IF v >= pedalCenter - deadzone /\ v <= pedalCenter + deadzone
    THEN DefaultControlState
    ELSE IF v > pedalCenter + deadzone
    THEN [isAccepting |-> TRUE, isDeleting |-> FALSE,
          intensity |-> MathMin(MaxIntensity,
                           MathRoundRatio100(v - (pedalCenter + deadzone),
                                             MaxAxis - (pedalCenter + deadzone)))]
    ELSE [isAccepting |-> FALSE, isDeleting |-> TRUE,
          intensity |-> MathMin(MaxIntensity,
                           MathRoundRatio100(v + 1, pedalCenter - deadzone))]

\* calculateControlState with the intensity taken from the distance to the
\* centre before the band test, so that the idle state keeps it.
calculateControlState_IntensityBeforeBand(v, pedalCenter, deadzone) ==
    IF v >= pedalCenter - deadzone /\ v <= pedalCenter + deadzone
    THEN [isAccepting |-> FALSE, isDeleting |-> FALSE,
          intensity |-> IF v >= pedalCenter THEN v - pedalCenter ELSE pedalCenter - v]
    ELSE IF v > pedalCenter + deadzone
    THEN [isAccepting |-> TRUE, isDeleting |-> FALSE,
          intensity |-> MathMin(MaxIntensity,
                           MathRoundRatio100(v - (pedalCenter + deadzone),
                                             MaxAxis - (pedalCenter + deadzone)))]
    ELSE [isAccepting |-> FALSE, isDeleting |-> TRUE,
          intensity |-> MathMin(MaxIntensity,
                           MathRoundRatio100(pedalCenter - deadzone - v,
                                             pedalCenter - deadzone))]

calculateControlState(v, pedalCenter, deadzone) ==
    IF v >= pedalCenter - deadzone /\ v <= pedalCenter + deadzone
    THEN DefaultControlState
    ELSE IF v > pedalCenter + deadzone
    THEN [isAccepting |-> TRUE, isDeleting |-> FALSE,
          intensity |-> MathMin(MaxIntensity,
                           MathRoundRatio100(v - (pedalCenter + deadzone),
                                             MaxAxis - (pedalCenter + deadzone)))]
    ELSE IF v < pedalCenter - deadzone
    THEN [isAccepting |-> FALSE, isDeleting |-> TRUE,
          intensity |-> MathMin(MaxIntensity,
                           MathRoundRatio100(pedalCenter - deadzone - v,
                                             pedalCenter - deadzone))]
    ELSE DefaultControlState

\* ------------------------------------------------------------------------
\* Inputs of the control loop
\* ------------------------------------------------------------------------

\* Configuration of the control loop: a centre calibrated to 76 with the
\* default deadzone, under which position 117 is Accepting at intensity 80,
\* position 30 is Deleting at intensity 60 and position 76 is Idle.
Configs == { <<76, DefaultDeadzone>> }

LeftValues == {30, 76, 117}
RudderValues == {0, 95}

\* HID reports: six bytes (rudder at 0, left pedal at 2, right pedal at 4).
\* Short reports are exercised under SpecPedal.
Reports ==
    { <<r, 0, l, 0, 0, 0>> : r \in RudderValues, l \in LeftValues }

\* Which of the commands tried by acceptOneCharacter the editor lists.
AvailableChoices == { {}, {2} }

IntensityRange == (0 - MaxIntensity)..MaxIntensity

\* ------------------------------------------------------------------------
\* PedalService, the listener of activate(), CopilotService
\* ------------------------------------------------------------------------

\* The state of the control loop right after activate() has run.
\* The PedalState a new PedalService holds.
InitialPedalState == [leftPedal |-> 0, rightPedal |-> 0, rudderPosition |-> 0]

\* '$(device-desktop) Pedals: Connected'
ConnectedText == [kind |-> "Connected", intensity |-> 0, state |-> InitialPedalState]

\* '$(device-desktop) Pedals: Disconnected'
DisconnectedText ==
    [kind |-> "Disconnected", intensity |-> 0, state |-> InitialPedalState]

\* A DeepgramService after construction; the getApiKey() call of the
\* constructor has not settled yet.
NewDeepgramService ==
    [enabled |-> FALSE, apiKey |-> FALSE, deepgramClient |-> FALSE,
     audioContext |-> FALSE, mediaRecorder |-> "null", socket |-> "null",
     constructing |-> TRUE]

\* No toggle() call has returned yet.
NoReturn == [seq |-> 0, before |-> FALSE, failed |-> FALSE, value |-> FALSE]

\* The listener has not run yet.
NoRun ==
    [before |-> InitialPedalState, threshold |-> DefaultTtsThreshold,
     previous |-> DefaultTtsThreshold, toggled |-> FALSE]

\* No calibration has settled yet.
NoCalibration == [p |-> 0, value |-> 0, ok |-> FALSE]

InitLoop ==
    /\ currentState = [leftPedal |-> 0, rightPedal |-> 0, rudderPosition |-> 0]
    /\ previousRudderPosition = 0
    /\ ttsEnabled = FALSE
    /\ controlState = DefaultControlState
    /\ acceptTimer = NULL
    /\ deleteTimer = NULL
    /\ isCurrentlyAccepting = FALSE
    /\ fallbackWarningShown = FALSE
    /\ disposed = FALSE
    /\ intervals = {}
    /\ hidePending = EmptyBag
    /\ acceptTicks = EmptyBag
    /\ backspacePending = 0
    /\ scenario = "none"
    /\ tickAfterDispose = FALSE
    /\ sttEnabled = FALSE
    /\ warningsShown = 0
    /\ lastReport = <<>>
    /\ eventFired = FALSE
    /\ rudderTrace = <<>>
    /\ toggleTrace = <<>>
    /\ listenerLog = <<>>
    /\ calibrating = EmptyBag
    /\ calibrated = NoCalibration
    /\ device = TRUE
    /\ emitterDisposed = FALSE
    /\ deviceErrored = FALSE
    /\ statusBarText = ConnectedText
    /\ deepgram = NewDeepgramService
    /\ deepgramCalls = EmptyBag
    /\ deepgramReturned = NoReturn
    /\ lastRun = NoRun

\* Math.max
MathMax(a, b) == IF a >= b THEN a ELSE b

\* No delay has been computed yet.
NoDelayCall == [intensity |-> 0, accept |-> 0, delete |-> 0, pc |-> "call"]

\* The delay with a slope of 0.48 ms per unit of intensity instead of 4.8.
Delay_FlatSlope(intensity) ==
    MathMax(MinDelay, FloorDiv(2 * (50000 - 48 * intensity) + 300, 600))

\* Math.max(5, Math.round((500 - (intensity * 4.8)) / 3)): the quotient
\* (5000 - 48 * intensity) / 30 is never within 1/30 of a tie, so the rounding
\* is exact.
Delay(intensity) ==
    MathMax(MinDelay, FloorDiv(2 * (5000 - 48 * intensity) + 30, 60))

\* The same expression in deleteSuggestion.
DeleteDelay(intensity) ==
    MathMax(MinDelay, FloorDiv(2 * (5000 - 48 * intensity) + 30, 60))

\* data[offset] || 0 with the bound test off by one: the last byte of a
\* report reads as missing.
ByteAt_OffByOne(data, offset) == IF offset + 1 < Len(data) THEN data[offset + 1] ELSE 0

\* data[offset] || 0 on a Buffer: a missing offset reads undefined.
ByteAt(data, offset) == IF offset + 1 <= Len(data) THEN data[offset + 1] ELSE 0

\* The state handlePedalData builds from a report.
NewState(data) ==
    [rudderPosition |-> ByteAt(data, 0),
     leftPedal |-> ByteAt(data, 2),
     rightPedal |-> ByteAt(data, 4)]

\* The part of the state the timer operations work on; ops collects the
\* clearInterval and setInterval calls made on it, in order.
Timers ==
    [acceptTimer |-> acceptTimer, deleteTimer |-> deleteTimer,
     isCurrentlyAccepting |-> isCurrentlyAccepting, intervals |-> intervals,
     ops |-> <<>>]

\* clearInterval(handle)
ClearInterval(ivs, handle) == {i \in ivs : i.id # handle}

\* setInterval(callback, delay): a new live timer under the lowest free id.
FreshId(ivs) ==
    CHOOSE n \in 1..(Cardinality(ivs) + 1) : \A i \in ivs : i.id # n

stopAcceptTimer(t) ==
    [t EXCEPT !.intervals = IF t.acceptTimer # NULL
                            THEN ClearInterval(@, t.acceptTimer) ELSE @,
              !.ops = IF t.acceptTimer # NULL
                      THEN Append(@, "clearInterval") ELSE @,
              !.acceptTimer = NULL,
              !.isCurrentlyAccepting = FALSE]

stopDeleteTimer(t) ==
    [t EXCEPT !.intervals = IF t.deleteTimer # NULL
                            THEN ClearInterval(@, t.deleteTimer) ELSE @,
              !.ops = IF t.deleteTimer # NULL
                      THEN Append(@, "clearInterval") ELSE @,
              !.deleteTimer = NULL]

\* acceptSuggestion(intensity); it has no await, so it runs in one step.
acceptSuggestion(t, intensity, editor) ==
    LET t1 == stopAcceptTimer(t)
        id == FreshId(t1.intervals)
    IN IF ~editor THEN t1
       ELSE [t1 EXCEPT !.isCurrentlyAccepting = TRUE,
                       !.acceptTimer = id,
                       !.ops = Append(@, "setInterval"),
                       !.intervals = @ \cup {[id |-> id, kind |-> "accept",
                                              delay |-> Delay(intensity)]}]

\* deleteSuggestion(intensity) up to its await of the 'hide' command.
deleteSuggestionStart(t) == stopDeleteTimer(t)

\* deleteSuggestion(intensity) from the await on, whether 'hide' resolved or
\* rejected.
deleteSuggestionResume(t, intensity, editor) ==
    LET id == FreshId(t.intervals)
    IN IF ~editor THEN t
       ELSE [t EXCEPT !.deleteTimer = id,
                      !.ops = Append(@, "setInterval"),
                      !.intervals = @ \cup {[id |-> id, kind |-> "delete",
                                             delay |-> DeleteDelay(intensity)]}]

\* executeCopilotControl whose Deleting branch does not stop the accept timer.
executeCopilotControl_KeepAccept(t, state, editor) ==
    IF state.intensity = 0 THEN stopDeleteTimer(stopAcceptTimer(t))
    ELSE IF state.isAccepting
    THEN acceptSuggestion(stopDeleteTimer(t), state.intensity, editor)
    ELSE IF state.isDeleting
    THEN deleteSuggestionStart(t)
    ELSE t

\* executeCopilotControl whose intensity-0 branch leaves the timers alone.
executeCopilotControl_SkipsIdle(t, state, editor) ==
    IF state.intensity = 0 THEN t
    ELSE IF state.isAccepting
    THEN acceptSuggestion(stopDeleteTimer(t), state.intensity, editor)
    ELSE IF state.isDeleting
    THEN deleteSuggestionStart(stopAcceptTimer(t))
    ELSE t

\* executeCopilotControl(state) up to its first await: the timers afterwards.
executeCopilotControl(t, state, editor) ==
    IF state.intensity = 0 THEN stopDeleteTimer(stopAcceptTimer(t))
    ELSE IF state.isAccepting
    THEN acceptSuggestion(stopDeleteTimer(t), state.intensity, editor)
    ELSE IF state.isDeleting
    THEN deleteSuggestionStart(stopAcceptTimer(t))
    ELSE t

\* executeCopilotControl(state) reaches the await in deleteSuggestion.
AwaitsHide(state) ==
    state.intensity # 0 /\ ~state.isAccepting /\ state.isDeleting

\* The crossing test with the downward half left out.
Crossed_UpOnly(previous, current, threshold) ==
    previous < threshold /\ current >= threshold

\* The crossing test with a strict comparison on the upper side.
Crossed_Strict(previous, current, threshold) ==
    \/ (previous < threshold /\ current > threshold)
    \/ (previous > threshold /\ current < threshold)

\* A test of the level of the rudder instead of a crossing.
Crossed_Level(previous, current, threshold) == current >= threshold

\* The crossing test of the listener.
Crossed(previous, current, threshold) ==
    \/ (previous < threshold /\ current >= threshold)
    \/ (previous >= threshold /\ current < threshold)

\* Live timers plus the deleteSuggestion calls that may still create one.
Load(ivs, pending) == Cardinality(ivs) + BagCardinality(pending)

InFlight == BagCardinality(acceptTicks) + backspacePending

SetTimers(t) ==
    /\ acceptTimer' = t.acceptTimer
    /\ deleteTimer' = t.deleteTimer
    /\ isCurrentlyAccepting' = t.isCurrentlyAccepting
    /\ intervals' = t.intervals

\* No deleteSuggestion is suspended and every live timer is held in a field.
Settled ==
    /\ hidePending = EmptyBag
    /\ \A i \in intervals : i.id = acceptTimer \/ i.id = deleteTimer

\* The scenario after the listener has processed control state cs.
ScenarioAfterSample(cs) ==
    IF cs.isAccepting /\ cs.intensity = 80 /\ Settled /\ editorOpen THEN "acc"
    ELSE IF scenario = "acc" /\ cs.isDeleting /\ cs.intensity = 60 THEN "accdel"
    ELSE "none"

\* The comparison of handlePedalData with only two of the three axes.
Changed_IgnoresRightPedal(old, new) ==
    \/ old.leftPedal # new.leftPedal
    \/ old.rudderPosition # new.rudderPosition

\* The comparison of handlePedalData: some axis differs from the stored state.
Changed(old, new) ==
    \/ old.leftPedal # new.leftPedal
    \/ old.rightPedal # new.rightPedal
    \/ old.rudderPosition # new.rudderPosition

\* getConfig() that returns the defaults whatever the settings hold.
getConfig_Defaults ==
    [pedalCenterPosition |-> DefaultCenter, pedalDeadzone |-> DefaultDeadzone,
     ttsToggleThreshold |-> DefaultTtsThreshold]

\* getConfig(): the settings as they are at the moment of the call.
getConfig ==
    [pedalCenterPosition |-> pedalCenterPosition, pedalDeadzone |-> pedalDeadzone,
     ttsToggleThreshold |-> ttsToggleThreshold]

\* handlePedalData on a report that changes the state, and the listener
\* registered in activate() that the event runs.
PedalStateChanged(data) ==
    /\ ~disposed
    /\ device
    /\ ~emitterDisposed
    /\ LET newState == NewState(data)
           cs == calculateControlState(newState.leftPedal,
                                       getConfig.pedalCenterPosition,
                                       getConfig.pedalDeadzone)
           t == executeCopilotControl(Timers, cs, editorOpen)
       IN /\ Changed(currentState, newState)
          /\ Load(t.intervals, hidePending) + (IF AwaitsHide(cs) THEN 1 ELSE 0)
                 <= MaxIntervals
          /\ currentState' = newState
          /\ controlState' = cs
          /\ SetTimers(t)
          /\ hidePending' = IF AwaitsHide(cs)
                            THEN hidePending (+) SetToBag({cs.intensity})
                            ELSE hidePending
          /\ ttsEnabled' = IF Crossed(previousRudderPosition, newState.rudderPosition,
                                      getConfig.ttsToggleThreshold)
                           THEN ~ttsEnabled ELSE ttsEnabled
          /\ previousRudderPosition' = newState.rudderPosition
          /\ scenario' = ScenarioAfterSample(cs)
    /\ UNCHANGED <<calcVars, ttsToggleThreshold, fallbackWarningShown, warningsShown,
                   disposed, acceptTicks, backspacePending, editorOpen,
                   availableCommands, tickAfterDispose, sttEnabled, delayCall,
                   calibrating, calibrated, device, emitterDisposed, deviceErrored,
                   deepgramVars>>

\* The HID 'data' event with a report that changes the state.
HandlePedalData(data) ==
    /\ PedalStateChanged(data)
    /\ UNCHANGED <<lastReport, eventFired, rudderTrace, toggleTrace, listenerLog,
                   statusBarText, lastRun>>

\* A report that yields the state already stored: handlePedalData fires nothing.
HandleSamePedalData(data) ==
    /\ ~disposed
    /\ ~Changed(currentState, NewState(data))
    /\ UNCHANGED vars

\* The 'hide' command of one suspended deleteSuggestion settles and the call
\* runs to its end.
HideSettles(intensity) ==
    /\ BagIn(intensity, hidePending)
    /\ hidePending' = hidePending (-) SetToBag({intensity})
    /\ SetTimers(deleteSuggestionResume(Timers, intensity, editorOpen))
    /\ scenario' = IF scenario = "accdel" THEN "done" ELSE "none"
    /\ UNCHANGED <<calcVars, sideVars, ttsToggleThreshold, currentState, previousRudderPosition,
                   ttsEnabled, controlState, fallbackWarningShown, warningsShown, disposed,
                   acceptTicks, backspacePending, editorOpen, availableCommands,
                   tickAfterDispose>>

\* The scenario after a step other than a sample or the settling of 'hide':
\* the state right after the settling ("done") lasts one step only.
ScenarioKept == IF scenario = "done" THEN "none" ELSE scenario

\* The fallback block of acceptOneCharacter, up to its await of 'commit'.
Fallback(t) == stopAcceptTimer(t)

\* The test guarding the warning of the fallback block, with the wrong
\* polarity left out: the warning is issued on every fallback.
NeedsFallbackWarning_Always(shown) == TRUE

\* if (!this.fallbackWarningShown): the fallback block warns the user.
NeedsFallbackWarning(shown) == ~shown

\* acceptOneCharacter moves on to command number idx, or past the last one;
\* a tick that reached 'commit' remembers whether it issued the warning, and
\* every tick counts the accept commands and 'commit' it has requested.
TickAdvance(tick, idx) ==
    IF idx <= NumCommands
    THEN /\ acceptTicks' = (acceptTicks (-) SetToBag({tick}))
                              (+) SetToBag({[pc |-> "getCommands", idx |-> idx, warned |-> FALSE,
                                             issued |-> tick.issued]})
         /\ UNCHANGED <<acceptTimer, deleteTimer, isCurrentlyAccepting, intervals,
                        fallbackWarningShown, warningsShown>>
    ELSE LET warns == NeedsFallbackWarning(fallbackWarningShown)
         IN /\ acceptTicks' = (acceptTicks (-) SetToBag({tick}))
                                 (+) SetToBag({[pc |-> "commit", idx |-> NumCommands,
                                                warned |-> warns,
                                                issued |-> tick.issued + 1]})
            /\ warningsShown' = IF warns THEN warningsShown + 1 ELSE warningsShown
            /\ fallbackWarningShown' = IF warns THEN TRUE ELSE fallbackWarningShown
            /\ SetTimers(Fallback(Timers))

\* A live accept timer fires: acceptOneCharacter runs up to its first await.
AcceptTimerFires(i) ==
    /\ i \in intervals /\ i.kind = "accept"
    /\ InFlight < MaxTicks
    /\ acceptTicks' = acceptTicks (+) SetToBag({[pc |-> "getCommands", idx |-> 1,
                                                 warned |-> FALSE, issued |-> 0]})
    /\ tickAfterDispose' = (tickAfterDispose \/ disposed)
    /\ scenario' = ScenarioKept
    /\ UNCHANGED <<calcVars, sideVars, ttsToggleThreshold, currentState, previousRudderPosition,
                   ttsEnabled, controlState, acceptTimer, deleteTimer,
                   isCurrentlyAccepting, fallbackWarningShown, warningsShown, disposed, intervals,
                   hidePending, backspacePending, editorOpen, availableCommands>>

\* getCommands() resolves: the command is executed if it is listed, else the
\* loop moves on.
GetCommandsResolves(tick) ==
    /\ BagIn(tick, acceptTicks) /\ tick.pc = "getCommands"
    /\ IF tick.idx \in availableCommands
       THEN /\ acceptTicks' = (acceptTicks (-) SetToBag({tick}))
                                 (+) SetToBag({[pc |-> "execute", idx |-> tick.idx,
                                                warned |-> FALSE,
                                                issued |-> tick.issued + 1]})
            /\ UNCHANGED <<acceptTimer, deleteTimer, isCurrentlyAccepting, intervals,
                           fallbackWarningShown, warningsShown>>
       ELSE TickAdvance(tick, tick.idx + 1)
    /\ scenario' = ScenarioKept
    /\ UNCHANGED <<calcVars, sideVars, ttsToggleThreshold, currentState, previousRudderPosition,
                   ttsEnabled, controlState, disposed, hidePending, backspacePending,
                   editorOpen, availableCommands, tickAfterDispose>>

\* The accept command resolves: acceptOneCharacter returns.
AcceptCommandResolves(tick) ==
    /\ BagIn(tick, acceptTicks) /\ tick.pc = "execute"
    /\ acceptTicks' = acceptTicks (-) SetToBag({tick})
    /\ scenario' = ScenarioKept
    /\ UNCHANGED <<calcVars, sideVars, ttsToggleThreshold, currentState, previousRudderPosition,
                   ttsEnabled, controlState, acceptTimer, deleteTimer,
                   isCurrentlyAccepting, fallbackWarningShown, warningsShown, disposed, intervals,
                   hidePending, backspacePending, editorOpen, availableCommands,
                   tickAfterDispose>>

\* getCommands() or the accept command rejects: the inner catch logs and the
\* loop moves on to the next command.
AcceptCommandRejects(tick) ==
    /\ BagIn(tick, acceptTicks) /\ tick.pc \in {"getCommands", "execute"}
    /\ TickAdvance(tick, tick.idx + 1)
    /\ scenario' = ScenarioKept
    /\ UNCHANGED <<calcVars, sideVars, ttsToggleThreshold, currentState, previousRudderPosition,
                   ttsEnabled, controlState, disposed, hidePending, backspacePending,
                   editorOpen, availableCommands, tickAfterDispose>>

\* 'commit' settles: on a rejection the outer catch stops the accept timer.
CommitSettles(tick, ok) ==
    /\ BagIn(tick, acceptTicks) /\ tick.pc = "commit"
    /\ acceptTicks' = acceptTicks (-) SetToBag({tick})
    /\ SetTimers(IF ok THEN Timers ELSE stopAcceptTimer(Timers))
    /\ scenario' = ScenarioKept
    /\ UNCHANGED <<calcVars, sideVars, ttsToggleThreshold, currentState, previousRudderPosition,
                   ttsEnabled, controlState, fallbackWarningShown, warningsShown, disposed,
                   hidePending, backspacePending, editorOpen, availableCommands,
                   tickAfterDispose>>

\* A live delete timer fires: sendBackspace issues 'deleteLeft' and awaits it.
DeleteTimerFires(i) ==
    /\ i \in intervals /\ i.kind = "delete"
    /\ InFlight < MaxTicks
    /\ backspacePending' = backspacePending + 1
    /\ tickAfterDispose' = (tickAfterDispose \/ disposed)
    /\ scenario' = ScenarioKept
    /\ UNCHANGED <<calcVars, sideVars, ttsToggleThreshold, currentState, previousRudderPosition,
                   ttsEnabled, controlState, acceptTimer, deleteTimer,
                   isCurrentlyAccepting, fallbackWarningShown, warningsShown, disposed, intervals,
                   hidePending, acceptTicks, editorOpen, availableCommands>>

\* 'deleteLeft' settles: on a rejection the catch stops the delete timer.
BackspaceSettles(ok) ==
    /\ backspacePending > 0
    /\ backspacePending' = backspacePending - 1
    /\ SetTimers(IF ok THEN Timers ELSE stopDeleteTimer(Timers))
    /\ scenario' = ScenarioKept
    /\ UNCHANGED <<calcVars, sideVars, ttsToggleThreshold, currentState, previousRudderPosition,
                   ttsEnabled, controlState, fallbackWarningShown, warningsShown, disposed,
                   hidePending, acceptTicks, editorOpen, availableCommands,
                   tickAfterDispose>>

\* The user opens or closes the active text editor.
EditorChanges ==
    /\ editorOpen' = ~editorOpen
    /\ scenario' = "none"
    /\ UNCHANGED <<calcVars, sideVars, ttsToggleThreshold, currentState, previousRudderPosition,
                   ttsEnabled, controlState, acceptTimer, deleteTimer,
                   isCurrentlyAccepting, fallbackWarningShown, warningsShown, disposed, intervals,
                   hidePending, acceptTicks, backspacePending, availableCommands,
                   tickAfterDispose>>

\* The extension is deactivated: context.subscriptions are disposed, among
\* them PedalService (the device is closed) and CopilotService.dispose().
Dispose ==
    /\ ~disposed
    /\ disposed' = TRUE
    /\ SetTimers(stopDeleteTimer(stopAcceptTimer(Timers)))
    /\ scenario' = "none"
    /\ UNCHANGED <<calcVars, sideVars, ttsToggleThreshold, currentState, previousRudderPosition,
                   ttsEnabled, controlState, fallbackWarningShown, warningsShown, hidePending,
                   acceptTicks, backspacePending, editorOpen, availableCommands,
                   tickAfterDispose>>

TickStates ==
    [pc : {"getCommands", "execute", "commit"}, idx : 1..NumCommands, warned : BOOLEAN,
     issued : 0..(NumCommands + 1)]

Init ==
    /\ \E c \in Configs : pedalCenterPosition = c[1] /\ pedalDeadzone = c[2]
    /\ ttsToggleThreshold = DefaultTtsThreshold
    /\ pedalValue = 0
    /\ calcState = DefaultControlState
    /\ calcPc = "call"
    /\ delayCall = NoDelayCall
    /\ InitLoop
    /\ hasWindow = TRUE
    /\ editorOpen \in BOOLEAN
    /\ availableCommands \in AvailableChoices

Next ==
    \/ \E data \in Reports : HandlePedalData(data)
    \/ \E data \in Reports : HandleSamePedalData(data)
    \/ \E n \in IntensityRange : HideSettles(n)
    \/ \E i \in intervals : AcceptTimerFires(i)
    \/ \E tick \in TickStates : GetCommandsResolves(tick)
    \/ \E tick \in TickStates : AcceptCommandResolves(tick)
    \/ \E tick \in TickStates : AcceptCommandRejects(tick)
    \/ \E tick \in TickStates, ok \in BOOLEAN : CommitSettles(tick, ok)
    \/ \E i \in intervals : DeleteTimerFires(i)
    \/ \E ok \in BOOLEAN : BackspaceSettles(ok)
    \/ EditorChanges
    \/ Dispose

Spec == Init /\ [][Next]_vars

\* ------------------------------------------------------------------------
\* Properties of the rate controller (checked under Spec)
\* ------------------------------------------------------------------------

\* C1: in every reachable state the accept timer and the delete timer are
\* never both active, whatever the sequence and timing of Accepting, Deleting
\* and Idle samples, also when an Accepting sample arrives while an earlier
\* Deleting sample still awaits the 'hide' command.
Cex_C1_TimersExclusive ==
    ~(acceptTimer # NULL /\ deleteTimer # NULL)

Cex_C3_IdleHasNoTimer ==
    controlState.intensity = 0 => (acceptTimer = NULL /\ deleteTimer = NULL)

\* C4: after dispose() has returned no accept or delete timer is active in any
\* later state and no timer callback runs.
Cex_C4_NoTimerAfterDispose ==
    disposed => (/\ acceptTimer = NULL
                 /\ deleteTimer = NULL
                 /\ ~tickAfterDispose)

\* C19: once an accept tick has found no fine-grained command (it committed
\* the full suggestion and stopped the accept timer), no accept timer is ever
\* started again for the rest of the session.
Cex_C19_StickyFallback ==
    fallbackWarningShown => acceptTimer = NULL

SampleStep == currentState' # currentState

\* A step in which an accept command, 'commit' or 'deleteLeft' is requested.
RequestIssued ==
    \/ backspacePending' > backspacePending
    \/ \E tick \in TickStates :
          /\ tick.pc \in {"execute", "commit"}
          /\ CopiesIn(tick, acceptTicks') > CopiesIn(tick, acceptTicks)

\* No command of a timer callback or of deleteSuggestion is in flight.
Quiescent ==
    /\ hidePending = EmptyBag
    /\ acceptTicks = EmptyBag
    /\ backspacePending = 0

\* C21: each tick of the accept timer requests exactly one editor action (one
\* fine-grained accept command or one 'commit'), also when a candidate
\* command fails when executed, and each tick of the delete timer requests
\* exactly one 'deleteLeft'.
Cex_C21_OneRequestPerTick ==
    /\ [](\A tick \in BagToSet(acceptTicks) :
            /\ tick.issued <= 1
            /\ tick.pc \in {"execute", "commit"} => tick.issued = 1)
    /\ [][/\ BagCardinality(acceptTicks') < BagCardinality(acceptTicks)
             => \E tick \in BagToSet(acceptTicks) :
                   /\ tick.issued = 1
                   /\ acceptTicks' = acceptTicks (-) SetToBag({tick})
          /\ backspacePending' > backspacePending
             => backspacePending' = backspacePending + 1]_vars

\* C23: the processing of one sample, the rate controller's timer stop and
\* start for it included, has run to completion when the processing of the
\* next sample begins.
Cex_C23_SamplesDoNotInterleave ==
    [][SampleStep => hidePending = EmptyBag]_vars

\* The timers match the last processed sample: Accepting has the accept timer
\* active and the delete timer not, Deleting the reverse, Idle neither.
TimersMatchSample ==
    /\ (controlState.isAccepting /\ controlState.intensity # 0)
          => (acceptTimer # NULL /\ deleteTimer = NULL)
    /\ (controlState.isDeleting /\ controlState.intensity # 0)
          => (deleteTimer # NULL /\ acceptTimer = NULL)
    /\ controlState.intensity = 0
          => (acceptTimer = NULL /\ deleteTimer = NULL)

\* Some editor command is in flight: it may fail, or never complete.
CommandPending == ~Quiescent

\* The report keeps the number of timers within the bound of the model.
WithinLoad(data) ==
    LET cs == calculateControlState(NewState(data).leftPedal, pedalCenterPosition,
                                    pedalDeadzone)
    IN Load(executeCopilotControl(Timers, cs, editorOpen).intervals, hidePending)
           + (IF AwaitsHide(cs) THEN 1 ELSE 0) <= MaxIntervals

\* C24: an editor command (hide, accept, commit, deleteLeft) that fails or
\* never completes does not keep later samples from being processed: while
\* such a command is in flight every changed report is still accepted, and
\* every processed sample is turned into a control state, passed to the rate
\* controller and checked for a toggle crossing.
Thm_C24_CommandsDoNotStall ==
    /\ []((CommandPending /\ ~disposed)
            => \A data \in Reports :
                  (NewState(data) # currentState /\ WithinLoad(data))
                      => ENABLED HandlePedalData(data))
    /\ [][SampleStep
             => /\ controlState'
                     = calculateControlState(currentState'.leftPedal,
                                             pedalCenterPosition, pedalDeadzone)
                /\ controlState'.intensity = 0
                      => (acceptTimer' = NULL /\ deleteTimer' = NULL)
                /\ (controlState'.isAccepting /\ controlState'.intensity # 0)
                      => (deleteTimer' = NULL /\ (editorOpen <=> acceptTimer' # NULL))
                /\ (controlState'.isDeleting /\ controlState'.intensity # 0)
                      => /\ acceptTimer' = NULL /\ deleteTimer' = NULL
                         /\ BagCardinality(hidePending')
                               = BagCardinality(hidePending) + 1
                /\ previousRudderPosition' = currentState'.rudderPosition
                /\ (ttsEnabled' # ttsEnabled)
                      <=> \/ (previousRudderPosition < ttsToggleThreshold
                                /\ currentState'.rudderPosition >= ttsToggleThreshold)
                          \/ (previousRudderPosition >= ttsToggleThreshold
                                /\ currentState'.rudderPosition < ttsToggleThreshold)]_vars

\* C24 witness: an Accepting sample was processed, and started the accept
\* timer, while the 'hide' of an earlier Deleting sample is still outstanding.
Wit_C24_SampleWhileHidePending ==
    /\ hidePending # EmptyBag
    /\ controlState.isAccepting
    /\ acceptTimer # NULL
    /\ currentState.rudderPosition >= ttsToggleThreshold
    /\ ttsEnabled

\* SpecReady: the rate controller with an editor that stays active and a
\* fine-grained accept command available.
InitReady ==
    /\ Init
    /\ editorOpen
    /\ availableCommands # {}

NextReady ==
    \/ \E data \in Reports : HandlePedalData(data)
    \/ \E data \in Reports : HandleSamePedalData(data)
    \/ \E n \in IntensityRange : HideSettles(n)
    \/ \E i \in intervals : AcceptTimerFires(i)
    \/ \E tick \in TickStates : GetCommandsResolves(tick)
    \/ \E tick \in TickStates : AcceptCommandResolves(tick)
    \/ \E tick \in TickStates : AcceptCommandRejects(tick)
    \/ \E tick \in TickStates, ok \in BOOLEAN : CommitSettles(tick, ok)
    \/ \E i \in intervals : DeleteTimerFires(i)
    \/ \E ok \in BOOLEAN : BackspaceSettles(ok)
    \/ Dispose

SpecReady == InitReady /\ [][NextReady]_vars

\* C28 (under SpecReady): whenever no asynchronous step is pending the timers
\* match the last processed sample: accept timer active and delete timer
\* inactive if it was Accepting with nonzero intensity, the reverse if it was
\* Deleting, neither if it was Idle.
Cex_C28_TimersMatchSample ==
    (Quiescent /\ ~disposed) => TimersMatchSample

\* C29: at any time at most one accept interval and at most one delete
\* interval exist, and every live interval is the one held in acceptTimer or
\* in deleteTimer.
Cex_C29_NoOrphanInterval ==
    /\ \A i \in intervals : \A j \in intervals : i.kind = j.kind => i = j
    /\ \A i \in intervals :
          i.id = (IF i.kind = "accept" THEN acceptTimer ELSE deleteTimer)

\* C30: after an Idle sample has been processed no accept command, 'commit'
\* or 'deleteLeft' is requested until a sample with nonzero intensity is
\* processed, also when a tick was awaiting the command list at that moment.
Cex_C30_NoRequestWhileIdle ==
    [][controlState.intensity = 0 => ~RequestIssued]_vars

\* Some live timer of the kind.
Active(ivs, kind) == \E i \in ivs : i.kind = kind

\* C35: with no active text editor, once an Accepting sample has been
\* processed no accept timer is active, and once a Deleting sample has been
\* processed no delete timer is active.
Cex_C35_NoEditorNoTimer ==
    [][(SampleStep /\ ~editorOpen) =>
         /\ controlState'.isAccepting
               => (acceptTimer' = NULL /\ ~Active(intervals', "accept"))
         /\ controlState'.isDeleting
               => (deleteTimer' = NULL /\ ~Active(intervals', "delete"))]_vars

\* ------------------------------------------------------------------------
\* SpecListener: one run of the onPedalStateChanged listener, call by call.
\* The editor is open; the timer callbacks are exercised under Spec.
\* ------------------------------------------------------------------------

\* The listener with the toggle detection ahead of the rate control.
ListenerCalls_ToggleFirst(ops, crossed) ==
    (IF crossed THEN <<"toggle">> ELSE <<>>)
        \o <<"calculateControlState", "executeCopilotControl">> \o ops

\* The calls one run of the listener makes, in order: calculateControlState,
\* executeCopilotControl with the timer calls of its synchronous part, then
\* ttsService.toggle() when the rudder crossed the threshold.
ListenerCalls(ops, crossed) ==
    <<"calculateControlState", "executeCopilotControl">> \o ops
        \o (IF crossed THEN <<"toggle">> ELSE <<>>)

\* The HID 'data' event with a report that changes the state, with the calls
\* of the listener recorded.
ListenPedalData(data) ==
    /\ PedalStateChanged(data)
    /\ lastReport' = data
    /\ listenerLog' =
          LET newState == NewState(data)
              cs == calculateControlState(newState.leftPedal, pedalCenterPosition,
                                          pedalDeadzone)
          IN ListenerCalls(executeCopilotControl(Timers, cs, editorOpen).ops,
                           Crossed(previousRudderPosition, newState.rudderPosition,
                                   ttsToggleThreshold))
    /\ UNCHANGED <<eventFired, rudderTrace, toggleTrace, statusBarText, lastRun>>

InitListener == Init /\ editorOpen

NextListener ==
    \/ \E data \in Reports : ListenPedalData(data)
    \/ \E intensity \in IntensityRange : HideSettles(intensity)

SpecListener == InitListener /\ [][NextListener]_vars

\* The call is among those of the latest listener run.
Called(call) == \E k \in 1..Len(listenerLog) : listenerLog[k] = call

\* C22: a sample with the direction of the previous one and a repeat delay
\* equal to that of the running timer leaves the timer in place: the listener
\* run neither cancels a timer nor creates one.
Cex_C22_TimerLeftInPlace ==
    [][(/\ SampleStep
        /\ \/ /\ controlState.isAccepting /\ controlState'.isAccepting
              /\ \E i \in intervals : /\ i.id = acceptTimer
                                       /\ i.delay = Delay(controlState'.intensity)
           \/ /\ controlState.isDeleting /\ controlState'.isDeleting
              /\ \E i \in intervals : /\ i.id = deleteTimer
                                       /\ i.delay = DeleteDelay(controlState'.intensity))
       => (~Called("clearInterval")' /\ ~Called("setInterval")')]_vars

\* C25: in every listener run the control state is computed and handed to
\* the rate controller before the toggle detection acts, and both work on the
\* PedalState built from the one report of that run.
Thm_C25_ControlBeforeToggle ==
    [][SampleStep =>
         LET log == listenerLog'
             snapshot == NewState(lastReport')
             crossed == Crossed(previousRudderPosition, snapshot.rudderPosition,
                                ttsToggleThreshold)
         IN /\ Len(log) >= 2
            /\ log[1] = "calculateControlState"
            /\ log[2] = "executeCopilotControl"
            /\ \A k \in 1..Len(log) : log[k] = "toggle" => (k = Len(log) /\ k > 2)
            /\ Called("toggle")' <=> crossed
            /\ currentState' = snapshot
            /\ controlState' = calculateControlState(snapshot.leftPedal,
                                                     pedalCenterPosition, pedalDeadzone)
            /\ (ttsEnabled' # ttsEnabled) <=> crossed
            /\ previousRudderPosition' = snapshot.rudderPosition]_vars

\* A run that started the accept timer and then toggled speech output.
Wit_C25_RateControlThenToggle ==
    /\ Len(listenerLog) >= 4
    /\ Called("setInterval")
    /\ listenerLog[Len(listenerLog)] = "toggle"
    /\ controlState.isAccepting
    /\ acceptTimer # NULL
    /\ ttsEnabled

\* ------------------------------------------------------------------------
\* SpecConfig: the settings change while samples arrive, through the settings
\* editor and through the command pedalPilot.calibratePedalCenter.
\* ------------------------------------------------------------------------

\* The left pedal is held at 117 while the rudder moves: Accepting under the
\* defaults (63, 1) and under (110, 1), Idle under (110, 13) and once
\* calibrated there.  A rudder at 60 is past a threshold of 50 only.  The
\* Deleting side of the control state and its timers are exercised under
\* SpecCalc and Spec.
ConfigLefts == {117}
ConfigRudders == {0, 60}
ConfigReports == { <<r, 0, l, 0, 0, 0>> : r \in ConfigRudders, l \in ConfigLefts }
ConfigCenters == {DefaultCenter, 110}
ConfigDeadzones == {DefaultDeadzone, 13}
ConfigThresholds == {50, DefaultTtsThreshold}

InitConfig ==
    /\ pedalCenterPosition = DefaultCenter
    /\ pedalDeadzone = DefaultDeadzone
    /\ ttsToggleThreshold = DefaultTtsThreshold
    /\ pedalValue = 0
    /\ calcState = DefaultControlState
    /\ calcPc = "call"
    /\ delayCall = NoDelayCall
    /\ InitLoop
    /\ hasWindow = TRUE
    /\ editorOpen = TRUE
    /\ availableCommands = {}

\* A write to one of the three settings takes effect.
UpdateConfig(key, value) ==
    /\ pedalCenterPosition' = IF key = "pedalCenterPosition" THEN value
                              ELSE pedalCenterPosition
    /\ pedalDeadzone' = IF key = "pedalDeadzone" THEN value ELSE pedalDeadzone
    /\ ttsToggleThreshold' = IF key = "ttsToggleThreshold" THEN value
                             ELSE ttsToggleThreshold
    /\ <<pedalCenterPosition, pedalDeadzone, ttsToggleThreshold>>'
           # <<pedalCenterPosition, pedalDeadzone, ttsToggleThreshold>>
    /\ UNCHANGED <<pedalValue, calcState, calcPc, loopVars, delayCall>>

\* The calibrate command with the rudder axis taken for the left pedal.
CalibrationValue_Rudder(state) == state.rudderPosition

\* The value the calibrate command writes: the left pedal of getPedalState().
CalibrationValue(state) == state.leftPedal

\* pedalPilot.calibratePedalCenter up to the call of updateConfig.
CalibrateStart ==
    /\ ~disposed
    /\ BagCardinality(calibrating) < MaxCalibrations
    /\ calibrating' = calibrating (+) SetToBag({[p |-> currentState.leftPedal,
                                                 value |-> CalibrationValue(currentState)]})
    /\ UNCHANGED <<calcVars, ttsToggleThreshold, currentState, previousRudderPosition,
                   ttsEnabled, controlState, acceptTimer, deleteTimer,
                   isCurrentlyAccepting, fallbackWarningShown, warningsShown, disposed,
                   intervals, hidePending, acceptTicks, backspacePending, editorOpen,
                   availableCommands, scenario, tickAfterDispose, sttEnabled,
                   lastReport, eventFired, rudderTrace, toggleTrace, delayCall,
                   listenerLog, calibrated, device, emitterDisposed, deviceErrored,
                   statusBarText,
                   deepgramVars, lastRun>>

\* The updateConfig call of one calibration settles: the setting is written
\* when it resolves and left alone when it rejects.
CalibrateSettles(c, ok) ==
    /\ BagIn(c, calibrating)
    /\ calibrating' = calibrating (-) SetToBag({c})
    /\ calibrated' = [p |-> c.p, value |-> c.value, ok |-> ok]
    /\ pedalCenterPosition' = IF ok THEN c.value ELSE pedalCenterPosition
    /\ UNCHANGED <<pedalDeadzone, pedalValue, calcState, calcPc, ttsToggleThreshold,
                   currentState, previousRudderPosition,
                   ttsEnabled, controlState, acceptTimer, deleteTimer,
                   isCurrentlyAccepting, fallbackWarningShown, warningsShown, disposed,
                   intervals, hidePending, acceptTicks, backspacePending, editorOpen,
                   availableCommands, scenario, tickAfterDispose, sttEnabled,
                   lastReport, eventFired, rudderTrace, toggleTrace, delayCall,
                   listenerLog, device, emitterDisposed, deviceErrored,
                   statusBarText,
                   deepgramVars, lastRun>>

NextConfig ==
    \/ \E data \in ConfigReports : HandlePedalData(data)
    \/ \E value \in ConfigCenters : UpdateConfig("pedalCenterPosition", value)
    \/ \E value \in ConfigDeadzones : UpdateConfig("pedalDeadzone", value)
    \/ \E value \in ConfigThresholds : UpdateConfig("ttsToggleThreshold", value)
    \/ CalibrateStart
    \/ \E c \in BagToSet(calibrating), ok \in BOOLEAN : CalibrateSettles(c, ok)

SpecConfig == InitConfig /\ [][NextConfig]_vars

\* C26: every processed sample is evaluated against the center, the deadzone
\* and the toggle threshold the settings hold at that moment, so the first
\* sample after a settings update already uses the new values.
Thm_C26_ConfigReadPerSample ==
    [][SampleStep =>
         /\ controlState' = calculateControlState(currentState'.leftPedal,
                                                  pedalCenterPosition, pedalDeadzone)
         /\ (ttsEnabled' # ttsEnabled)
               <=> Crossed(previousRudderPosition, currentState'.rudderPosition,
                           ttsToggleThreshold)]_vars

\* Position 117 judged Idle and a rudder at 60 toggled speech output on: the
\* sample was evaluated against an updated center, an updated deadzone and an
\* updated threshold.
Wit_C26_SampleUnderNewConfig ==
    /\ pedalCenterPosition = 110
    /\ pedalDeadzone = 13
    /\ ttsToggleThreshold = 50
    /\ currentState.leftPedal = 117
    /\ currentState.rudderPosition = 60
    /\ controlState = DefaultControlState
    /\ ttsEnabled

\* An updateConfig call of the calibrate command resolves in this step.
CalibrationCompletes ==
    /\ BagCardinality(calibrating') < BagCardinality(calibrating)
    /\ calibrated'.ok

\* C27: when the calibrate command completes, having read left pedal position
\* p, the center setting is p and calculateControlState(p) is Idle with
\* intensity 0 for every deadzone >= 0; a sample at the center position is
\* processed as Idle.
Thm_C27_CalibratedCenterIsIdle ==
    /\ [][CalibrationCompletes =>
            /\ pedalCenterPosition' = calibrated'.p
            /\ \A deadzone \in (0..MaxDeadzone) \cup ConfigDeadzones :
                  calculateControlState(calibrated'.p, pedalCenterPosition', deadzone)
                      = DefaultControlState]_vars
    /\ [][(SampleStep /\ currentState'.leftPedal = pedalCenterPosition)
            => controlState' = DefaultControlState]_vars

\* Calibrated at 117, where the pedal was Accepting, and the next sample at
\* 117 was processed as Idle.
Wit_C27_CalibratedAwayFromDefault ==
    /\ calibrated = [p |-> 117, value |-> 117, ok |-> TRUE]
    /\ pedalCenterPosition = 117
    /\ currentState.leftPedal = 117
    /\ controlState = DefaultControlState
    /\ acceptTimer = NULL

\* ------------------------------------------------------------------------
\* SpecThreshold: the toggle threshold changes between samples that move the
\* rudder, the left pedal or the right pedal.
\* ------------------------------------------------------------------------

\* The left pedal rests at 0, calibrated there, or is pressed to 117; a rudder
\* at 60 is past a threshold of 50 only.
ThresholdLefts == {0, 117}
ThresholdRights == {0, 95}
ThresholdReports ==
    { <<r, 0, l, 0, rt, 0>> :
        r \in ConfigRudders, l \in ThresholdLefts, rt \in ThresholdRights }

InitThreshold ==
    /\ pedalCenterPosition = 0
    /\ pedalDeadzone = DefaultDeadzone
    /\ ttsToggleThreshold = DefaultTtsThreshold
    /\ pedalValue = 0
    /\ calcState = DefaultControlState
    /\ calcPc = "call"
    /\ delayCall = NoDelayCall
    /\ InitLoop
    /\ hasWindow = TRUE
    /\ editorOpen = TRUE
    /\ availableCommands = {}

\* The HID 'data' event with a report that changes the state, with the
\* threshold the listener read recorded.
ThresholdSample(data) ==
    /\ PedalStateChanged(data)
    /\ lastRun' = [before |-> currentState,
                   threshold |-> getConfig.ttsToggleThreshold,
                   previous |-> lastRun.threshold,
                   toggled |-> Crossed(previousRudderPosition,
                                       NewState(data).rudderPosition,
                                       getConfig.ttsToggleThreshold)]
    /\ UNCHANGED <<lastReport, eventFired, rudderTrace, toggleTrace, listenerLog,
                   statusBarText>>

NextThreshold ==
    \/ \E data \in ThresholdReports : ThresholdSample(data)
    \/ \E value \in ConfigThresholds : UpdateConfig("ttsToggleThreshold", value)

SpecThreshold == InitThreshold /\ [][NextThreshold]_vars

\* C33: a sample toggles speech output only if its rudder value differs from
\* that of the sample processed before it; a sample that changes only the left
\* or the right pedal never toggles, whatever happened to the threshold
\* setting in between.
Thm_C33_ToggleNeedsRudderChange ==
    [][(SampleStep /\ ttsEnabled' # ttsEnabled)
         => /\ currentState'.rudderPosition # currentState.rudderPosition
            /\ currentState'.rudderPosition # previousRudderPosition]_vars

\* The rudder stayed at 60 while a pedal moved and the threshold had gone
\* from 90 to 50 since the sample before: no toggle.
Wit_C33_ThresholdMovedUnderRudder ==
    /\ currentState.rudderPosition = 60
    /\ lastRun.before.rudderPosition = 60
    /\ lastRun.before # currentState
    /\ lastRun.previous = DefaultTtsThreshold
    /\ lastRun.threshold = 50
    /\ ~lastRun.toggled
    /\ ~ttsEnabled

\* ------------------------------------------------------------------------
\* SpecDevice: the HID device fails or is reconnected while samples arrive,
\* and the status bar text the listener and the commands write.
\* ------------------------------------------------------------------------

\* '$(device-desktop) L: .. R: .. C: ..'
PositionText(state) == [kind |-> "Position", intensity |-> 0, state |-> state]

\* '$(device-desktop) Accepting (..%) L:.. R:.. C:..', or 'Deleting'.
ActionText(cs, state) ==
    [kind |-> IF cs.isAccepting THEN "Accepting" ELSE "Deleting",
     intensity |-> cs.intensity, state |-> state]

\* updateStatusBar: the position text, unless the bar shows 'Accepting' or
\* 'Deleting'.
updateStatusBar(text, state) ==
    IF text.kind # "Accepting" /\ text.kind # "Deleting"
    THEN PositionText(state) ELSE text

\* The status bar after one run of the listener.
ListenerStatusText(text, state, cs) ==
    IF cs.isAccepting \/ cs.isDeleting
    THEN ActionText(cs, state) ELSE updateStatusBar(text, state)

\* The HID 'data' event with a report that changes the state; the listener
\* runs and writes the status bar.
DeviceData(data) ==
    /\ PedalStateChanged(data)
    /\ statusBarText' =
          ListenerStatusText(statusBarText, NewState(data),
                             calculateControlState(NewState(data).leftPedal,
                                                   getConfig.pedalCenterPosition,
                                                   getConfig.pedalDeadzone))
    /\ UNCHANGED <<lastReport, eventFired, rudderTrace, toggleTrace, listenerLog,
                   lastRun>>

\* The HID 'data' event with a report that changes the state, after the
\* emitter was disposed: fire() reaches no listener.
DeviceDataUnheard(data) ==
    /\ ~disposed
    /\ device
    /\ emitterDisposed
    /\ Changed(currentState, NewState(data))
    /\ currentState' = NewState(data)
    /\ UNCHANGED <<calcVars, ttsToggleThreshold, previousRudderPosition, ttsEnabled,
                   controlState, acceptTimer, deleteTimer, isCurrentlyAccepting,
                   fallbackWarningShown, warningsShown, disposed, intervals,
                   hidePending, acceptTicks, backspacePending, editorOpen,
                   availableCommands, scenario, tickAfterDispose, sideVars>>

\* pedalService.dispose() followed by pedalService.initialize(), and the
\* status text written for its result.
DisposeAndInitialize(found) ==
    /\ ~disposed
    /\ device' = found
    /\ emitterDisposed' = TRUE
    /\ deviceErrored' = FALSE
    /\ statusBarText' = IF found THEN ConnectedText ELSE DisconnectedText
    /\ UNCHANGED <<calcVars, ttsToggleThreshold, currentState, previousRudderPosition,
                   ttsEnabled, controlState, acceptTimer, deleteTimer,
                   isCurrentlyAccepting, fallbackWarningShown, warningsShown, disposed,
                   intervals, hidePending, acceptTicks, backspacePending, editorOpen,
                   availableCommands, scenario, tickAfterDispose, sttEnabled,
                   lastReport, eventFired, rudderTrace, toggleTrace, delayCall,
                   listenerLog, calibrating, calibrated,
                   deepgramVars, lastRun>>

\* The command pedalPilot.reconnect.
Reconnect(found) == DisposeAndInitialize(found)

\* The command pedalPilot.selectDevice once a device has been picked.
SelectDevice(found) == DisposeAndInitialize(found)

\* The 'error' event of the HID device: PedalService.dispose().
DeviceError ==
    /\ ~disposed
    /\ device
    /\ device' = FALSE
    /\ emitterDisposed' = TRUE
    /\ deviceErrored' = TRUE
    /\ UNCHANGED <<calcVars, ttsToggleThreshold, currentState, previousRudderPosition,
                   ttsEnabled, controlState, acceptTimer, deleteTimer,
                   isCurrentlyAccepting, fallbackWarningShown, warningsShown, disposed,
                   intervals, hidePending, acceptTicks, backspacePending, editorOpen,
                   availableCommands, scenario, tickAfterDispose, sttEnabled,
                   lastReport, eventFired, rudderTrace, toggleTrace, delayCall,
                   listenerLog, calibrating, calibrated, statusBarText,
                   deepgramVars, lastRun>>

InitDevice == Init /\ editorOpen

NextDevice ==
    \/ \E data \in Reports : DeviceData(data)
    \/ \E data \in Reports : DeviceDataUnheard(data)
    \/ \E intensity \in IntensityRange : HideSettles(intensity)
    \/ \E found \in BOOLEAN : Reconnect(found)
    \/ \E found \in BOOLEAN : SelectDevice(found)
    \/ DeviceError

SpecDevice == InitDevice /\ [][NextDevice]_vars

\* C31: also after the reconnect or select-device command has disposed and
\* re-initialized PedalService, every sample that changes the state runs the
\* listener: the control state is recomputed from it and its rudder position
\* is recorded for the toggle detector.
Cex_C31_ListenerSurvivesReconnect ==
    [][SampleStep =>
         /\ controlState' = calculateControlState(currentState'.leftPedal,
                                                  pedalCenterPosition, pedalDeadzone)
         /\ previousRudderPosition' = currentState'.rudderPosition]_vars

\* C32: once the device has been closed by its error handler, no accept or
\* delete repeat timer is active.
Cex_C32_NoTimerAfterDeviceError ==
    deviceErrored => (intervals = {} /\ acceptTimer = NULL /\ deleteTimer = NULL)

\* C34: after the listener has processed a sample whose control state is
\* Idle, the status bar shows the position text of that sample.
Cex_C34_IdleShowsPosition ==
    [][(SampleStep /\ ~emitterDisposed /\ controlState' = DefaultControlState)
         => statusBarText' = PositionText(currentState')]_vars

\* ------------------------------------------------------------------------
\* SpecDeepgram: DeepgramService.toggle() with its audio initialization, which
\* awaits the API key prompt and the microphone.
\* ------------------------------------------------------------------------

InitDeepgram ==
    /\ pedalCenterPosition = DefaultCenter
    /\ pedalDeadzone = DefaultDeadzone
    /\ ttsToggleThreshold = DefaultTtsThreshold
    /\ pedalValue = 0
    /\ calcState = DefaultControlState
    /\ calcPc = "call"
    /\ delayCall = NoDelayCall
    /\ InitLoop
    /\ hasWindow \in BOOLEAN
    /\ editorOpen = TRUE
    /\ availableCommands = {}

\* A failed start that leaves the enabled flag as it is.
EnabledAfterFailedStart_Kept(enabled) == enabled

\* toggle() after startRecognition() returned false: this.enabled = false.
EnabledAfterFailedStart(enabled) == FALSE

\* stopRecognition(): stop a running recorder, close and drop the socket.
stopRecognition(d) ==
    [d EXCEPT !.mediaRecorder = IF @ = "recording" THEN "inactive" ELSE @,
              !.socket = "null"]

\* A toggle() call returns value; before is the enabled flag it found.
Returns(before, failed, value) ==
    deepgramReturned' = [seq |-> 1 - deepgramReturned.seq, before |-> before,
                         failed |-> failed, value |-> value]

\* The rest of the state.
DeepgramFrame ==
    UNCHANGED <<calcVars, ttsToggleThreshold, currentState, previousRudderPosition,
                ttsEnabled, controlState, acceptTimer, deleteTimer,
                isCurrentlyAccepting, fallbackWarningShown, warningsShown, disposed,
                intervals, hidePending, acceptTicks, backspacePending, editorOpen,
                availableCommands, scenario, tickAfterDispose, sttEnabled,
                lastReport, eventFired, rudderTrace, toggleTrace, delayCall,
                listenerLog, calibrating, calibrated, device, emitterDisposed,
                deviceErrored, statusBarText, lastRun>>

\* The getApiKey() call of the constructor settles and stores its result.
ConstructorKeySettles(key) ==
    /\ deepgram.constructing
    /\ deepgram' = [deepgram EXCEPT !.apiKey = key, !.constructing = FALSE]
    /\ UNCHANGED <<deepgramCalls, deepgramReturned, hasWindow>>
    /\ DeepgramFrame

\* toggle() while enabled: the flag is cleared, recognition stopped and the
\* call returns.
ToggleOff ==
    /\ deepgram.enabled
    /\ deepgram' = stopRecognition([deepgram EXCEPT !.enabled = FALSE])
    /\ Returns(TRUE, FALSE, FALSE)
    /\ UNCHANGED <<deepgramCalls, hasWindow>>
    /\ DeepgramFrame

\* toggle() while disabled, with no browser environment: initializeAudio
\* returns false before any await and the flag is cleared again.
ToggleOnNoWindow ==
    /\ ~deepgram.enabled
    /\ ~hasWindow
    /\ deepgram' = [deepgram EXCEPT !.enabled = EnabledAfterFailedStart(TRUE)]
    /\ Returns(FALSE, TRUE, deepgram'.enabled)
    /\ UNCHANGED <<deepgramCalls, hasWindow>>
    /\ DeepgramFrame

\* toggle() while disabled: the flag is set and initializeAudio runs up to its
\* first await, the API key prompt or the microphone request.
ToggleOn ==
    /\ ~deepgram.enabled
    /\ hasWindow
    /\ BagCardinality(deepgramCalls) < MaxToggles
    /\ deepgram' = [deepgram EXCEPT !.enabled = TRUE,
                                    !.deepgramClient = IF deepgram.apiKey THEN TRUE ELSE @]
    /\ deepgramCalls' = deepgramCalls
           (+) SetToBag({IF deepgram.apiKey THEN "getUserMedia" ELSE "getApiKey"})
    /\ UNCHANGED <<deepgramReturned, hasWindow>>
    /\ DeepgramFrame

\* The API key prompt of one call settles: with a key the call goes on to the
\* microphone request, without one it fails.
GetApiKeySettles(key) ==
    /\ BagIn("getApiKey", deepgramCalls)
    /\ IF key
       THEN /\ deepgram' = [deepgram EXCEPT !.apiKey = TRUE, !.deepgramClient = TRUE]
            /\ deepgramCalls' = (deepgramCalls (-) SetToBag({"getApiKey"}))
                                    (+) SetToBag({"getUserMedia"})
            /\ UNCHANGED deepgramReturned
       ELSE /\ deepgram' = [deepgram EXCEPT
                               !.enabled = EnabledAfterFailedStart(@)]
            /\ deepgramCalls' = deepgramCalls (-) SetToBag({"getApiKey"})
            /\ Returns(FALSE, TRUE, deepgram'.enabled)
    /\ UNCHANGED hasWindow
    /\ DeepgramFrame

\* getUserMedia of one call rejects, or a later statement of the same try
\* block throws: the call fails.
GetUserMediaRejects ==
    /\ BagIn("getUserMedia", deepgramCalls)
    /\ deepgram' = [deepgram EXCEPT !.enabled = EnabledAfterFailedStart(@)]
    /\ deepgramCalls' = deepgramCalls (-) SetToBag({"getUserMedia"})
    /\ Returns(FALSE, TRUE, deepgram'.enabled)
    /\ UNCHANGED hasWindow
    /\ DeepgramFrame

\* getUserMedia of one call resolves: a new recorder replaces the old one, an
\* existing socket is closed, connectToDeepgram() opens a new connection and
\* toggle() returns this.enabled.
GetUserMediaResolves ==
    /\ BagIn("getUserMedia", deepgramCalls)
    /\ deepgram' = [deepgram EXCEPT !.audioContext = TRUE,
                                    !.mediaRecorder = "inactive",
                                    !.socket = "connecting"]
    /\ deepgramCalls' = deepgramCalls (-) SetToBag({"getUserMedia"})
    /\ Returns(FALSE, FALSE, deepgram.enabled)
    /\ UNCHANGED hasWindow
    /\ DeepgramFrame

\* The 'open' event of the connection: the recorder is started.
SocketOpens ==
    /\ deepgram.socket = "connecting"
    /\ deepgram' = [deepgram EXCEPT !.socket = "open",
                                    !.mediaRecorder = IF @ = "null" THEN @
                                                      ELSE "recording"]
    /\ UNCHANGED <<deepgramCalls, deepgramReturned, hasWindow>>
    /\ DeepgramFrame

NextDeepgram ==
    \/ \E key \in BOOLEAN : ConstructorKeySettles(key)
    \/ ToggleOff
    \/ ToggleOnNoWindow
    \/ ToggleOn
    \/ \E key \in BOOLEAN : GetApiKeySettles(key)
    \/ GetUserMediaRejects
    \/ GetUserMediaResolves
    \/ SocketOpens

SpecDeepgram == InitDeepgram /\ [][NextDeepgram]_vars

\* A toggle() call that tried to enable returns in this step, having failed.
EnableFailed ==
    /\ deepgramReturned'.seq # deepgramReturned.seq
    /\ deepgramReturned'.failed

\* C36: when a toggle() call fails to enable (no browser environment, no API
\* key, microphone refused), the service is disabled when the call returns,
\* as it was before the call, and the call returns false.
Thm_C36_FailedEnableStaysDisabled ==
    [][EnableFailed =>
         /\ ~deepgram'.enabled
         /\ deepgram'.enabled = deepgramReturned'.before
         /\ deepgramReturned'.value = FALSE]_vars

\* The microphone was refused after the API key had been obtained and the
\* client created.
Wit_C36_MicrophoneRefused ==
    /\ deepgramReturned.failed
    /\ ~deepgramReturned.value
    /\ ~deepgram.enabled
    /\ deepgram.apiKey
    /\ deepgram.deepgramClient
    /\ deepgram.socket = "null"
    /\ deepgramCalls = EmptyBag

\* C37: whenever enabled is false and no toggle() call is in progress, there
\* is no open Deepgram connection and no running recorder.
Cex_C37_DisabledMeansStopped ==
    (~deepgram.enabled /\ deepgramCalls = EmptyBag)
        => (deepgram.socket # "open" /\ deepgram.mediaRecorder # "recording")

\* ------------------------------------------------------------------------
\* SpecPedal: the axis normalizer and the listener's toggle detector, with
\* the history of every handlePedalData call.  The timer callbacks touch none
\* of the listener's variables and are exercised under Spec.
\* ------------------------------------------------------------------------

\* A left pedal that rests at 0 and was calibrated there: position 0 is Idle
\* (also when a short report leaves the axis out), position 117 is Accepting.
PedalLefts == {0, 117}
PedalRights == {0, 95}
PedalRudders == {40, 50, 95}

\* Configured ttsToggleThreshold: the default, and one equal to a rudder value.
Thresholds == {DefaultTtsThreshold, 95}

\* Full reports, and reports cut after 0, 1 or 3 bytes.
PedalReports ==
    { SubSeq(<<r, 0, l, 0, p, 0>>, 1, n) :
          r \in PedalRudders, l \in PedalLefts, p \in PedalRights, n \in {0, 1, 3, 6} }

InitPedal ==
    /\ pedalCenterPosition = 0
    /\ pedalDeadzone = DefaultDeadzone
    /\ ttsToggleThreshold \in Thresholds
    /\ pedalValue = 0
    /\ calcState = DefaultControlState
    /\ calcPc = "call"
    /\ delayCall = NoDelayCall
    /\ InitLoop
    /\ hasWindow = TRUE
    /\ editorOpen = TRUE
    /\ availableCommands = {}

\* The HID 'data' event with a report that changes the state: the event
\* fires and the listener runs.
ReceivePedalData(data) ==
    /\ Len(rudderTrace) < MaxTrace
    /\ PedalStateChanged(data)
    /\ lastReport' = data
    /\ eventFired' = TRUE
    /\ rudderTrace' = Append(rudderTrace, NewState(data).rudderPosition)
    /\ toggleTrace' = Append(toggleTrace,
                             Crossed(previousRudderPosition,
                                     NewState(data).rudderPosition, ttsToggleThreshold))
    /\ UNCHANGED <<listenerLog, statusBarText, lastRun>>

\* The HID 'data' event with a report that yields the stored state: nothing
\* fires.
ReceiveSamePedalData(data) ==
    /\ ~disposed
    /\ ~Changed(currentState, NewState(data))
    /\ lastReport' = data
    /\ eventFired' = FALSE
    /\ UNCHANGED <<calcVars, ttsToggleThreshold, currentState, previousRudderPosition,
                   ttsEnabled, controlState, acceptTimer, deleteTimer,
                   isCurrentlyAccepting, fallbackWarningShown, warningsShown, disposed,
                   intervals, hidePending, acceptTicks, backspacePending, editorOpen,
                   availableCommands, scenario, tickAfterDispose, sttEnabled,
                   rudderTrace, toggleTrace, delayCall, listenerLog, calibrating,
                   calibrated, device, emitterDisposed, deviceErrored, statusBarText,
                   deepgramVars, lastRun>>

\* The command pedalPilot.toggleTTS: ttsService.toggle().
ToggleTTSCommand ==
    /\ ~disposed
    /\ ttsEnabled' = ~ttsEnabled
    /\ UNCHANGED <<calcVars, ttsToggleThreshold, currentState, previousRudderPosition,
                   controlState, acceptTimer, deleteTimer, isCurrentlyAccepting,
                   fallbackWarningShown, warningsShown, disposed, intervals,
                   hidePending, acceptTicks, backspacePending, editorOpen,
                   availableCommands, scenario, tickAfterDispose, sideVars>>

NextPedal ==
    \/ \E data \in PedalReports : ReceivePedalData(data)
    \/ \E data \in PedalReports : ReceiveSamePedalData(data)
    \/ ToggleTTSCommand

SpecPedal == InitPedal /\ [][NextPedal]_vars

\* ------------------------------------------------------------------------
\* Properties of the normalizer and the toggle detector (checked under
\* SpecPedal)
\* ------------------------------------------------------------------------

\* A step that is a call of handlePedalData (a call that repeats the previous
\* one with the same outcome leaves the state as it is).
PedalDataCall == lastReport' # lastReport \/ eventFired' # eventFired

\* A step in which the listener processed a sample.
SampleProcessed == Len(rudderTrace') = Len(rudderTrace) + 1

\* The axes of a report, an absent byte read as 0.
ZeroFilled(data) ==
    [rudderPosition |-> IF Len(data) >= 1 THEN data[1] ELSE 0,
     leftPedal |-> IF Len(data) >= 3 THEN data[3] ELSE 0,
     rightPedal |-> IF Len(data) >= 5 THEN data[5] ELSE 0]

\* The rudder position of the sample processed before the current step.
RudderBefore == IF rudderTrace = <<>> THEN 0 ELSE rudderTrace[Len(rudderTrace)]

\* C12: handlePedalData fires onPedalStateChanged exactly when the triple
\* (leftPedal, rightPedal, rudderPosition) of the report differs from the last
\* stored state (initially 0, 0, 0); a report equal to the stored state fires
\* no event and causes no downstream action.
Thm_C12_EventIffChanged ==
    [][PedalDataCall
          => LET new == NewState(lastReport')
             IN /\ eventFired' <=> <<new.leftPedal, new.rightPedal, new.rudderPosition>>
                                      # <<currentState.leftPedal, currentState.rightPedal,
                                          currentState.rudderPosition>>
                /\ eventFired' => currentState' = new
                /\ ~eventFired'
                      => UNCHANGED <<currentState, previousRudderPosition, ttsEnabled,
                                     controlState, acceptTimer, deleteTimer,
                                     isCurrentlyAccepting, intervals, hidePending,
                                     rudderTrace, toggleTrace>>]_vars

\* C12 witness: a full report was delivered after samples had been processed
\* and, being equal to the stored state, fired no event.
Wit_C12_RepeatedSample ==
    /\ rudderTrace # <<>>
    /\ Len(lastReport) = 6
    /\ ~eventFired
    /\ NewState(lastReport) = currentState

\* C13: handlePedalData does not fail on a short report: an offset the report
\* lacks (0 rudder, 2 left pedal, 4 right pedal) is taken as 0, and the
\* resulting state goes through the same change suppression.
Thm_C13_ShortReportZeroFilled ==
    [][(PedalDataCall /\ Len(lastReport') < 5)
          => /\ currentState' = ZeroFilled(lastReport')
             /\ eventFired' <=> ZeroFilled(lastReport') # currentState]_vars

\* C13 witness: after earlier samples a one-byte report changed the state: the
\* rudder took the byte, both pedals read 0 and the controller is Idle.
Wit_C13_OneByteReport ==
    /\ Len(lastReport) = 1
    /\ eventFired
    /\ currentState = [rudderPosition |-> lastReport[1], leftPedal |-> 0,
                       rightPedal |-> 0]
    /\ controlState = DefaultControlState
    /\ Len(rudderTrace) >= 2

\* The rudder sequence of the toggle scenario.
ToggleSequence == <<50, 95, 95, 40, 95>>

\* C14: a fresh loop (previous rudder 0) with threshold 90 that processes the
\* rudder sequence 50, 95, 95, 40, 95 makes exactly 3 text-to-speech toggle
\* calls: on the 2nd, the 4th and the 5th value.
Thm_C14_ThreeToggles ==
    (ttsToggleThreshold = 90 /\ rudderTrace = ToggleSequence)
        => { i \in 1..Len(toggleTrace) : toggleTrace[i] } = {2, 4, 5}

\* C14 witness: the five samples of the sequence have been processed under
\* threshold 90.
Wit_C14_SequenceProcessed ==
    /\ ttsToggleThreshold = 90
    /\ rudderTrace = ToggleSequence
    /\ Len(toggleTrace) = 5

\* C15: on every processed sample the listener toggles text-to-speech exactly
\* once if (previous < threshold and current >= threshold) or (previous >=
\* threshold and current < threshold), and not at all otherwise; previous is
\* the rudder of the sample processed before (0 before the first) and is set
\* to the current rudder after every processed sample.
Thm_C15_ToggleIffCrossing ==
    [][SampleProcessed
          => LET previous == RudderBefore
                 current == currentState'.rudderPosition
                 threshold == ttsToggleThreshold
                 crossing == \/ (previous < threshold /\ current >= threshold)
                             \/ (previous >= threshold /\ current < threshold)
             IN /\ toggleTrace'[Len(toggleTrace')] <=> crossing
                /\ (ttsEnabled' # ttsEnabled) <=> crossing
                /\ previousRudderPosition = previous
                /\ previousRudderPosition' = current
                /\ rudderTrace'[Len(rudderTrace')] = current]_vars

\* C15 witness: the rudder stands exactly on the threshold after an upward
\* crossing that toggled, and an earlier sample did not toggle.
Wit_C15_CrossingOntoThreshold ==
    /\ Len(toggleTrace) >= 2
    /\ toggleTrace[Len(toggleTrace)]
    /\ ~toggleTrace[1]
    /\ previousRudderPosition = ttsToggleThreshold

\* C16: a processed sample that moves the rudder from below the threshold to
\* at or above it leaves text-to-speech enabled, and one that moves it back
\* below leaves it disabled, in every reachable state, also after the command
\* 'Toggle Text-to-Speech' has been used.
Cex_C16_AboveMeansEnabled ==
    [][SampleProcessed
          => LET previous == RudderBefore
                 current == currentState'.rudderPosition
             IN /\ (previous < ttsToggleThreshold /\ current >= ttsToggleThreshold)
                      => ttsEnabled'
                /\ (previous >= ttsToggleThreshold /\ current < ttsToggleThreshold)
                      => ~ttsEnabled']_vars

\* C17: the right pedal has its own crossing detector against
\* sttToggleThreshold with its own memory of the previous value: every
\* processed sample on which the right pedal crosses that threshold toggles
\* speech recognition exactly once, and no other sample does.
Cex_C17_RightPedalTogglesStt ==
    [][SampleProcessed
          => LET previous == currentState.rightPedal
                 current == currentState'.rightPedal
                 crossing == \/ (previous < DefaultSttThreshold
                                    /\ current >= DefaultSttThreshold)
                             \/ (previous >= DefaultSttThreshold
                                    /\ current < DefaultSttThreshold)
             IN (sttEnabled' # sttEnabled) <=> crossing]_vars

\* ------------------------------------------------------------------------
\* SpecDelay: the repeat delay of acceptSuggestion and of deleteSuggestion
\* computed for one intensity out of 1..100
\* ------------------------------------------------------------------------
InitDelay ==
    /\ pedalCenterPosition = DefaultCenter
    /\ pedalDeadzone = DefaultDeadzone
    /\ ttsToggleThreshold = DefaultTtsThreshold
    /\ pedalValue = 0
    /\ calcState = DefaultControlState
    /\ calcPc = "call"
    /\ delayCall \in [intensity : 1..MaxIntensity, accept : {0}, delete : {0},
                       pc : {"call"}]
    /\ InitLoop
    /\ hasWindow = TRUE
    /\ editorOpen = TRUE
    /\ availableCommands = {}

ComputeDelays ==
    /\ delayCall.pc = "call"
    /\ delayCall' = [delayCall EXCEPT !.accept = Delay(delayCall.intensity),
                                      !.delete = DeleteDelay(delayCall.intensity),
                                      !.pc = "return"]
    /\ UNCHANGED <<calcVars, ttsToggleThreshold, loopVars>>

NextDelay == ComputeDelays

SpecDelay == InitDelay /\ [][NextDelay]_vars

\* C18: for the intensities 1..100 the delay max(5, round((500 - 4.8 *
\* intensity) / 3)) is strictly decreasing in the intensity and never below
\* 5, and the accept timer and the delete timer use the same mapping.
Thm_C18_DelayDecreasing ==
    delayCall.pc = "return"
        => LET d == delayCall.accept
               exact30 == 5000 - 48 * delayCall.intensity  \* 30 * (500 - 4.8 i) / 3
           IN /\ d >= 5
              /\ 30 * d - exact30 <= 15 /\ exact30 - 30 * d < 15
              /\ \A j \in 1..MaxIntensity : j < delayCall.intensity => Delay(j) > d
              /\ delayCall.delete = d

\* C18 witness: the delays were computed for the highest intensity and are
\* 7 ms, above the floor of 5.
Wit_C18_FastestDelay ==
    /\ delayCall.pc = "return"
    /\ delayCall.intensity = MaxIntensity
    /\ delayCall.accept = 7
    /\ delayCall.delete = 7

\* ------------------------------------------------------------------------
\* SpecCalc: one call of calculateControlState on an arbitrary byte under an
\* arbitrary configuration
\* ------------------------------------------------------------------------
InitCalc ==
    /\ pedalCenterPosition \in 0..MaxCenter
    /\ pedalDeadzone \in 0..MaxDeadzone
    /\ pedalValue \in Bytes
    /\ calcState = DefaultControlState
    /\ calcPc = "call"
    /\ ttsToggleThreshold = DefaultTtsThreshold
    /\ delayCall = NoDelayCall
    /\ InitLoop
    /\ hasWindow = TRUE
    /\ editorOpen = TRUE
    /\ availableCommands = {}

CallCalculateControlState ==
    /\ calcPc = "call"
    /\ calcState' = calculateControlState(pedalValue, pedalCenterPosition, pedalDeadzone)
    /\ calcPc' = "return"
    /\ UNCHANGED <<pedalValue, configVars, loopVars, delayCall>>

NextCalc == CallCalculateControlState

SpecCalc == InitCalc /\ [][NextCalc]_vars

\* ------------------------------------------------------------------------
\* Properties of calculateControlState (checked under SpecCalc)
\* ------------------------------------------------------------------------
BandLow == pedalCenterPosition - pedalDeadzone
BandHigh == pedalCenterPosition + pedalDeadzone
Returned == calcPc = "return"
CalcOf(v) == calculateControlState(v, pedalCenterPosition, pedalDeadzone)

\* C5: for every configured center and deadzone and every value v with
\* center-deadzone <= v <= center+deadzone (both ends inclusive) the function
\* returns isAccepting = false, isDeleting = false and intensity = 0.
Thm_C5_DeadzoneIsIdle ==
    (Returned /\ BandLow <= pedalValue /\ pedalValue <= BandHigh)
        => (/\ calcState.isAccepting = FALSE
            /\ calcState.isDeleting = FALSE
            /\ calcState.intensity = 0)

\* C5 witness: a call returned for a value on the upper edge of a band of
\* nonzero width, and the result is the idle state.
Wit_C5_BandEdge ==
    /\ Returned
    /\ pedalDeadzone > 0
    /\ pedalValue = BandHigh
    /\ calcState = DefaultControlState

\* C6: for every value strictly above center+deadzone the direction is
\* Accepting, and for any two such values v1 <= v2 the intensity for v1 is at
\* most the intensity for v2.
Cex_C6_AcceptMonotone ==
    (Returned /\ pedalValue > BandHigh)
        => (/\ calcState.isAccepting /\ ~calcState.isDeleting
            /\ \A v2 \in Bytes :
                  v2 >= pedalValue => calcState.intensity <= CalcOf(v2).intensity)

\* C7: for every value strictly below center-deadzone the direction is
\* Deleting, and for any two such values v1 >= v2 the intensity for v1 is at
\* most the intensity for v2.
Thm_C7_DeleteMonotone ==
    (Returned /\ pedalValue < BandLow)
        => (/\ calcState.isDeleting /\ ~calcState.isAccepting
            /\ \A v2 \in Bytes :
                  v2 <= pedalValue => calcState.intensity <= CalcOf(v2).intensity)

\* C7 witness: a call returned Deleting for a value below the band with an
\* intensity strictly between the one at the band edge and the one at 0.
Wit_C7_DeleteBelowBand ==
    /\ Returned
    /\ pedalValue < BandLow /\ pedalValue > 0
    /\ calcState.isDeleting
    /\ calcState.intensity > 0
    /\ calcState.intensity < CalcOf(0).intensity

\* C8: the intensity is round(100*(v-(center+deadzone))/(127-(center+deadzone)))
\* above the band and round(100*((center-deadzone)-v)/(center-deadzone)) below
\* it; with center = 63 and deadzone = 1: 63 -> Idle/0, 127 -> Accepting/100,
\* 0 -> Deleting/100, 95 -> Accepting/49.  Stated for positions 0..127 under
\* configurations with deadzone < center and center+deadzone < 127, where the
\* formula needs no clamping.
Cex_C8_IntensityFormula ==
    (/\ Returned
     /\ pedalValue <= MaxAxis
     /\ pedalDeadzone < pedalCenterPosition
     /\ BandHigh < MaxAxis)
        => /\ pedalValue > BandHigh =>
                calcState.intensity = ExactRound100(pedalValue - BandHigh, MaxAxis - BandHigh)
           /\ pedalValue < BandLow =>
                calcState.intensity = ExactRound100(BandLow - pedalValue, BandLow)
           /\ (pedalCenterPosition = DefaultCenter /\ pedalDeadzone = DefaultDeadzone) =>
                /\ pedalValue = 63 => calcState = DefaultControlState
                /\ pedalValue = 127 => calcState = [isAccepting |-> TRUE, isDeleting |-> FALSE, intensity |-> 100]
                /\ pedalValue = 0 => calcState = [isAccepting |-> FALSE, isDeleting |-> TRUE, intensity |-> 100]
                /\ pedalValue = 95 => calcState = [isAccepting |-> TRUE, isDeleting |-> FALSE, intensity |-> 49]

\* C9: for every byte-valued position and every configured center and
\* deadzone the returned intensity lies in 0..100.
Cex_C9_IntensityClamped ==
    Returned => (calcState.intensity >= 0 /\ calcState.intensity <= MaxIntensity)

\* C10: when center+deadzone = 127 every value above the band gives intensity
\* exactly 100, and when center-deadzone = 0 every value below the band does.
Thm_C10_ZeroDivisorSaturates ==
    /\ (Returned /\ BandHigh = MaxAxis /\ pedalValue > BandHigh)
           => (calcState.isAccepting /\ calcState.intensity = MaxIntensity)
    /\ (Returned /\ BandLow = 0 /\ pedalValue < BandLow)
           => (calcState.isDeleting /\ calcState.intensity = MaxIntensity)

\* C10 witness: the band ends exactly at 127 and the call returned for the
\* position right above it, where the divisor 127-(center+deadzone) is 0.
Wit_C10_DivisorZero ==
    /\ Returned
    /\ BandHigh = MaxAxis
    /\ pedalValue = MaxAxis + 1
    /\ calcState.intensity = MaxIntensity

\* C11: every control state returned by calculateControlState has at most one
\* of isAccepting and isDeleting true, and when both are false its intensity
\* is 0.
Thm_C11_OneDirection ==
    Returned
        => (/\ ~(calcState.isAccepting /\ calcState.isDeleting)
            /\ (~calcState.isAccepting /\ ~calcState.isDeleting)
                   => calcState.intensity = 0)

\* C11 witness: the call returned the idle state for a position inside the
\* band but off the centre.
Wit_C11_IdleOffCentre ==
    /\ Returned
    /\ pedalValue # pedalCenterPosition
    /\ ~calcState.isAccepting /\ ~calcState.isDeleting
    /\ calcState.intensity = 0

====
